---- MODULE Spec2Model ----
(***************************************************************************)
(* Command handlers of src/sourceAction.ts (coc-java).                     *)
(*                                                                         *)
(* Every handler is an async function.  A handler runs synchronously up to *)
(* its next `await`, so one action of this module is one such run: from    *)
(* the invocation, or from the resolution of the awaited promise, to the   *)
(* next await, return or throw.  The language server, the user (quickpick, *)
(* confirmation prompt) and the editor (moveTo, applyWorkspaceEdit) are    *)
(* the environment: their answers are drawn from small sets.               *)
(*                                                                         *)
(* JavaScript values: null/undefined is the record Null; an object is a    *)
(* record, and a property the object does not have is a field missing from *)
(* the record's domain; an array received from the server on its own is    *)
(* wrapped as [items |-> <<...>>].                                         *)
(***************************************************************************)
EXTENDS Integers, Sequences, FiniteSets, TLC

VARIABLES
    slots,          \* the invocations that may run (one, or two interleaved)
    pc,             \* per invocation: the await the handler is suspended at
    cmd,            \* per invocation: the command whose handler runs
    params,         \* per invocation: the handler's CodeActionParams
    selections,     \* per invocation: CHOOSE_IMPORTS' second argument
    result,         \* per invocation: `result` / `accessors`, the first response
    regenerate,     \* per invocation: `regenerate` of the hashCode/equals handler
    res,            \* per invocation: `res` / `idx`, the last quickpick answer
    i,              \* per invocation: loop counter of the choose-imports handler
    chosen,         \* per invocation: `chosen` of the choose-imports handler
    workspaceEdit,  \* per invocation: `workspaceEdit`, the second response
    log             \* per invocation: history of the calls made and answers got

vars == <<slots, pc, cmd, params, selections, result, regenerate, res, i,
          chosen, workspaceEdit, log>>

locals == <<params, selections, result, regenerate, res, i, chosen, workspaceEdit>>

-----------------------------------------------------------------------------
(* Bounds *)

MaxItems == 3
MaxItemsConc == 1
MaxSelections == 2
MaxCandidates == 2

\* Two invocation slots: the two invocations that may interleave.
Procs == {1, 2}

\* While two invocations interleave the environment draws its answers from
\* smaller sets: shorter lists, fewer distinct items.
Concurrent == Cardinality(slots) > 1

ItemBound == IF Concurrent THEN MaxItemsConc ELSE MaxItems

SeqUpTo(S, n) == UNION {[1..k -> S] : k \in 0..n}

\* The lists of at most n distinct members of S: the server lists an item once.
ListsUpTo(S, n) ==
    {s \in SeqUpTo(S, n) : \A a, b \in DOMAIN s : s[a] = s[b] => a = b}

-----------------------------------------------------------------------------
(* Values *)

Null == [tag |-> "null"]

\* Commands.* (src/commands, imported at line 5)
OVERRIDE_METHODS_PROMPT == "java.action.overrideMethodsPrompt"
HASHCODE_EQUALS_PROMPT == "java.action.hashCodeEqualsPrompt"
ORGANIZE_IMPORTS == "java.action.organizeImports"
CHOOSE_IMPORTS == "java.action.organizeImports.chooseImports"
GENERATE_TOSTRING_PROMPT == "java.action.generateToStringPrompt"
GENERATE_ACCESSORS_PROMPT == "java.action.generateAccessorsPrompt"

\* The commands registered by registerCommands, lines 9-16.
registerCommands ==
    {OVERRIDE_METHODS_PROMPT, HASHCODE_EQUALS_PROMPT, ORGANIZE_IMPORTS,
     CHOOSE_IMPORTS, GENERATE_TOSTRING_PROMPT, GENERATE_ACCESSORS_PROMPT}

\* Request types (src/protocol, imported at line 7)
ListOverridableMethodsRequest == "java/listOverridableMethods"
AddOverridableMethodsRequest == "java/addOverridableMethods"
CheckHashCodeEqualsStatusRequest == "java/checkHashCodeEqualsStatus"
GenerateHashCodeEqualsRequest == "java/generateHashCodeEquals"
OrganizeImportsRequest == "java/organizeImports"
CheckToStringStatusRequest == "java/checkToStringStatus"
GenerateToStringRequest == "java/generateToString"
ResolveUnimplementedAccessorsRequest == "java/resolveUnimplementedAccessors"
GenerateAccessorsRequest == "java/generateAccessors"

FirstRequests ==
    {ListOverridableMethodsRequest, CheckHashCodeEqualsStatusRequest,
     CheckToStringStatusRequest, ResolveUnimplementedAccessorsRequest}

SecondRequests ==
    {AddOverridableMethodsRequest, GenerateHashCodeEqualsRequest,
     GenerateToStringRequest, GenerateAccessorsRequest}

\* Range.create(startLine, startCharacter, endLine, endCharacter)
Range(sl, sc, el, ec) ==
    [start |-> [line |-> sl, character |-> sc], end |-> [line |-> el, character |-> ec]]

Uris == {"file:///A.java", "file:///B.java"}

\* CodeActionParams a code action passes to a prompting handler.
CodeActionParams ==
    {[textDocument |-> [uri |-> u], range |-> Range(1, 0, 1, 0),
      context |-> [diagnostics |-> <<>>]] : u \in Uris}

\* The document workspace.getDocument(workspace.bufnr) returns.
Documents ==
    {[uri |-> u, lineCount |-> n] : u \in Uris, n \in IF Concurrent THEN {7} ELSE {0, 7}}

\* OverridableMethod of the protocol: the fields the handler reads.
Methods ==
    IF Concurrent
    THEN {[declaringClass |-> "a", name |-> n, parameters |-> <<>>] : n \in {"f", "G"}}
    ELSE {[declaringClass |-> c, name |-> n, parameters |-> ps] :
            c \in {"a", "B"}, n \in {"f", "G"}, ps \in {<<>>, <<"int", "T">>}}
            \ {[declaringClass |-> "B", name |-> "G", parameters |-> ps] :
                    ps \in {<<>>, <<"int", "T">>}}

\* VariableField of the protocol.
Fields == {[name |-> "x", type |-> "int"], [name |-> "y", type |-> "String"]}

\* AccessorField of the protocol.
Accessors ==
    {[fieldName |-> "x", isStatic |-> FALSE, generateGetter |-> TRUE, generateSetter |-> TRUE],
     [fieldName |-> "y", isStatic |-> TRUE, generateGetter |-> TRUE, generateSetter |-> FALSE]}

\* ImportCandidate and ImportSelection of the protocol: an ambiguous type
\* name on some line, with the types it may stand for.
Candidates(line) ==
    IF line = 3
    THEN {[fullyQualifiedName |-> "java.util.List"], [fullyQualifiedName |-> "java.awt.List"]}
    ELSE {[fullyQualifiedName |-> "java.util.Date"], [fullyQualifiedName |-> "java.sql.Date"]}

ImportSelections ==
    UNION {{[candidates |-> cs, range |-> Range(line, 0, line, 4)] :
                cs \in ListsUpTo(Candidates(line),
                                 IF Concurrent THEN MaxItemsConc ELSE MaxCandidates)} :
            line \in IF Concurrent THEN {3} ELSE {3, 5}}

\* WorkspaceEdit answered to an add/generate/organize request.
WorkspaceEdits ==
    {[changes |-> "edit1"], [changes |-> "edit2"]}
        \cup IF Concurrent THEN {} ELSE {Null}

Has(o, f) == f \in DOMAIN o

\* `!v` for a value that is null/undefined or an object.
IsNull(v) == v = Null


-----------------------------------------------------------------------------
(* Pure parts of the handlers *)

\* Position of a string in the collation String.prototype.localeCompare
\* uses: letters in alphabetical order whatever their case, and for the same
\* letter the lower case first.  (Code-unit order would put "B" and "G"
\* before "a" and "f".)
CollationRank(s) ==
    CASE s = "a" -> 1
      [] s = "B" -> 2
      [] s = "f" -> 3
      [] s = "G" -> 4

\* a.localeCompare(b): negative, zero or positive.
LocaleCompare(a, b) ==
    IF CollationRank(a) < CollationRank(b) THEN -1
    ELSE IF CollationRank(a) > CollationRank(b) THEN 1
    ELSE 0

CompareMethodsNoArity(a, b) ==
    LET declaringClass == LocaleCompare(a.declaringClass, b.declaringClass)
        methodName == LocaleCompare(a.name, b.name)
    IN  IF declaringClass # 0 THEN declaringClass
        ELSE methodName

\* The comparator given to result.methods.sort, lines 26-38.
CompareMethods(a, b) ==
    LET declaringClass == LocaleCompare(a.declaringClass, b.declaringClass)
        methodName == LocaleCompare(a.name, b.name)
    IN  IF declaringClass # 0 THEN declaringClass
        ELSE IF methodName # 0 THEN methodName
        ELSE Len(a.parameters) - Len(b.parameters)

\* Insert x into the sorted list s behind every element that is not greater.
RECURSIVE SortedInsert(_, _)
SortedInsert(s, x) ==
    IF s = <<>> THEN <<x>>
    ELSE IF CompareMethods(x, s[Len(s)]) < 0
         THEN Append(SortedInsert(SubSeq(s, 1, Len(s) - 1), x), s[Len(s)])
         ELSE Append(s, x)

\* Array.prototype.sort with the comparator above: a stable sort.
RECURSIVE Sort(_)
Sort(s) ==
    IF s = <<>> THEN <<>>
    ELSE SortedInsert(Sort(SubSeq(s, 1, Len(s) - 1)), s[Len(s)])

\* Array.prototype.join
RECURSIVE Join(_, _)
Join(s, sep) ==
    IF s = <<>> THEN ""
    ELSE IF Len(s) = 1 THEN s[1]
    ELSE s[1] \o sep \o Join(Tail(s), sep)

Map(s, F(_)) == [n \in 1..Len(s) |-> F(s[n])]

\* `${method.name}(${method.parameters.join(',')})`, lines 40-42.
MethodLabel(method) == method.name \o "(" \o Join(method.parameters, ",") \o ")"

\* `${field.name}: ${field.type}`, lines 73-74 and 191.
FieldLabel(field) == field.name \o ": " \o field.type

\* accessorItems' label, line 154.
AccessorLabel(accessor) == accessor.fieldName

\* candidates.map(o => o.fullyQualifiedName), line 122.
CandidateLabel(o) == o.fullyQualifiedName

\* array[idx] for the 0-based index a quickpick returns.
AtOneBased(array, idx) == array[IF idx + 2 <= Len(array) THEN idx + 2 ELSE 1]

At(array, idx) == array[idx + 1]

-----------------------------------------------------------------------------
(* What the server may answer *)

ListOverridableMethodsResponses ==
    {Null, [type |-> "T"]}
        \cup {[type |-> "T", methods |-> ms] : ms \in ListsUpTo(Methods, ItemBound)}

ExistingMethods ==
    {<<>>, <<"hashCode()">>}
        \cup IF Concurrent THEN {} ELSE {<<"hashCode()", "equals()">>}

CheckHashCodeEqualsResponses ==
    {Null}
        \cup (IF Concurrent THEN {}
              ELSE {[type |-> "T"], [type |-> "T", existingMethods |-> <<"equals()">>]}
                    \cup {[type |-> "T", fields |-> fs] : fs \in ListsUpTo(Fields, ItemBound)})
        \cup {[type |-> "T", fields |-> fs, existingMethods |-> em] :
                fs \in ListsUpTo(Fields, ItemBound), em \in ExistingMethods}

CheckToStringResponses ==
    {Null}
        \cup (IF Concurrent THEN {}
              ELSE {[type |-> "T"]} \cup {[type |-> "T", exists |-> b] : b \in BOOLEAN})
        \cup {[type |-> "T", exists |-> b, fields |-> fs] :
                b \in BOOLEAN, fs \in ListsUpTo(Fields, ItemBound)}

ResolveUnimplementedAccessorsResponses ==
    {Null} \cup {[items |-> as] : as \in ListsUpTo(Accessors, ItemBound)}

\* The arguments the server passes to CHOOSE_IMPORTS.
SelectionBound == IF Concurrent THEN 1 ELSE MaxSelections

ChooseImportsArguments == SeqUpTo(ImportSelections, SelectionBound)

-----------------------------------------------------------------------------
(* History *)

Invoked(c, a) == [k |-> "invoke", cmd |-> c, params |-> a]
InvokedOnDocument(c, doc) == [k |-> "invoke", cmd |-> c, doc |-> doc]
InvokedWithSelections(c, sel) == [k |-> "invoke", cmd |-> c, selections |-> sel]
Sent(req, payload) == [k |-> "send", req |-> req, payload |-> payload]
Received(req, val) == [k |-> "recv", req |-> req, val |-> val]
ShowMessage(level) == [k |-> "message", level |-> level]
ShowQuickpick(items) == [k |-> "quickpick", items |-> items]
Picked(idx) == [k |-> "picked", idx |-> idx]
PickFailed == [k |-> "pickFailed"]
ShowPrompt == [k |-> "prompt"]
Answered(ans) == [k |-> "answered", ans |-> ans]
MoveTo(position) == [k |-> "moveTo", position |-> position]
Moved == [k |-> "moved"]
Apply(edit) == [k |-> "apply", edit |-> edit]
Applied == [k |-> "applied"]
Rejected == [k |-> "rejected"]
Return == [k |-> "return"]
ReturnValue(v) == [k |-> "return", value |-> v]
Throw(error) == [k |-> "throw", error |-> error]

Emit(p, events) == log' = [log EXCEPT ![p] = @ \o events]

Goto(p, label) == pc' = [pc EXCEPT ![p] = label]

-----------------------------------------------------------------------------
(* Initial state: no handler is running *)

InitLocals ==
    /\ pc = [p \in Procs |-> "idle"]
    /\ cmd = [p \in Procs |-> "none"]
    /\ params = [p \in Procs |-> Null]
    /\ selections = [p \in Procs |-> <<>>]
    /\ result = [p \in Procs |-> Null]
    /\ regenerate = [p \in Procs |-> FALSE]
    /\ res = [p \in Procs |-> -1]
    /\ i = [p \in Procs |-> 0]
    /\ chosen = [p \in Procs |-> <<>>]
    /\ workspaceEdit = [p \in Procs |-> Null]
    /\ log = [p \in Procs |-> <<>>]

\* One invocation at a time.
Init == slots = {1} /\ InitLocals

\* Two invocations, interleaved at their awaits.
InitConcurrent == slots = Procs /\ InitLocals

FirstEventsNoRequest(c, req, a) == <<Invoked(c, a)>>

\* A prompting handler's run up to its first await: the first request is sent
\* with the handler's params, lines 20, 58, 140 and 174.
FirstEvents(c, req, a) == <<Invoked(c, a), Sent(req, a)>>

DeclinedNever(ans) == FALSE

\* `if (!ans) return`, lines 68 and 182.
Declined(ans) == ~ans

\* The handler of command c starts with fresh locals.
Start(p, c) ==
    /\ p \in slots
    /\ pc[p] = "idle"
    /\ cmd' = [cmd EXCEPT ![p] = c]
    /\ UNCHANGED slots

\* The handler of command c resumes from the await it is suspended at.
Resume(p, c, label) ==
    /\ p \in slots
    /\ pc[p] = label
    /\ cmd[p] = c
    /\ UNCHANGED <<slots, cmd>>

\* `const workspaceEdit = await sendRequest(...); await applyWorkspaceEdit(workspaceEdit)`
\* from the arrival of the response on: lines 48-52, 86-91, 105-106,
\* 164-168 and 203-207.
EditToApplyStale(p, edit) == workspaceEdit[p]

\* The argument of applyWorkspaceEdit: the response just assigned to workspaceEdit.
EditToApply(p, edit) == edit

OnEdit(p, c, req) ==
    /\ Resume(p, c, "awaitEdit")
    /\ \E edit \in WorkspaceEdits :
        /\ workspaceEdit' = [workspaceEdit EXCEPT ![p] = edit]
        /\ Emit(p, <<Received(req, edit), Apply(EditToApply(p, edit))>>)
    /\ Goto(p, "awaitApply")
    /\ UNCHANGED <<params, selections, result, regenerate, res, i, chosen>>

-----------------------------------------------------------------------------
(* OVERRIDE_METHODS_PROMPT, lines 18-54 *)

AddOverridableMethodsParamsOther(p, idx) ==
    [context |-> params[CHOOSE q \in Procs : q # p],
     overridableMethods |-> <<At(result[p].methods, idx)>>]

\* The payload of the second request, lines 46-51.
AddOverridableMethodsParams(p, idx) ==
    [context |-> params[p], overridableMethods |-> <<At(result[p].methods, idx)>>]

OverrideMethods_Invoke(p) ==
    /\ Start(p, OVERRIDE_METHODS_PROMPT)
    /\ \E a \in CodeActionParams :
        /\ params' = [params EXCEPT ![p] = a]
        /\ log' = [log EXCEPT ![p] = FirstEvents(OVERRIDE_METHODS_PROMPT, ListOverridableMethodsRequest, a)]
    /\ Goto(p, "awaitFirst")
    /\ UNCHANGED <<selections, result, regenerate, res, i, chosen, workspaceEdit>>

OverrideMethods_OnList(p) ==
    /\ Resume(p, OVERRIDE_METHODS_PROMPT, "awaitFirst")
    /\ \E r \in ListOverridableMethodsResponses :
        IF IsNull(r) \/ ~Has(r, "methods") \/ Len(r.methods) = 0
        THEN /\ result' = [result EXCEPT ![p] = r]
             /\ Emit(p, <<Received(ListOverridableMethodsRequest, r),
                          ShowMessage("warning"), Return>>)
             /\ Goto(p, "done")
        ELSE LET sorted == [r EXCEPT !.methods = Sort(r.methods)]
                 quickPickItems == Map(sorted.methods, MethodLabel)
             IN  /\ result' = [result EXCEPT ![p] = sorted]
                 /\ Emit(p, <<Received(ListOverridableMethodsRequest, r),
                              ShowQuickpick(quickPickItems)>>)
                 /\ Goto(p, "awaitQuickpick")
    /\ UNCHANGED <<params, selections, regenerate, res, i, chosen, workspaceEdit>>

OverrideMethods_OnPick(p) ==
    /\ Resume(p, OVERRIDE_METHODS_PROMPT, "awaitQuickpick")
    /\ \E idx \in -1 .. Len(result[p].methods) - 1 :
        /\ res' = [res EXCEPT ![p] = idx]
        /\ IF idx = -1
           THEN /\ Emit(p, <<Picked(idx), Return>>)
                /\ Goto(p, "done")
           ELSE /\ Emit(p, <<Picked(idx),
                             Sent(AddOverridableMethodsRequest,
                                  AddOverridableMethodsParams(p, idx))>>)
                /\ Goto(p, "awaitEdit")
    /\ UNCHANGED <<params, selections, result, regenerate, i, chosen, workspaceEdit>>

OverrideMethods_OnEdit(p) ==
    OnEdit(p, OVERRIDE_METHODS_PROMPT, AddOverridableMethodsRequest)

-----------------------------------------------------------------------------
(* HASHCODE_EQUALS_PROMPT, lines 56-93 *)

GenerateHashCodeEqualsParamsKeep(p, idx) ==
    [context |-> params[p],
     fields |-> <<At(result[p].fields, idx)>>,
     regenerate |-> FALSE]

\* The payload of the second request, lines 84-90.
GenerateHashCodeEqualsParams(p, idx) ==
    [context |-> params[p],
     fields |-> <<At(result[p].fields, idx)>>,
     regenerate |-> regenerate[p]]

\* Lines 73-82: the field quickpick is shown.
HashCodeEquals_ShowFields(p, r, before) ==
    /\ Emit(p, before \o <<ShowQuickpick(Map(r.fields, FieldLabel))>>)
    /\ Goto(p, "awaitQuickpick")

HashCodeEquals_Invoke(p) ==
    /\ Start(p, HASHCODE_EQUALS_PROMPT)
    /\ \E a \in CodeActionParams :
        /\ params' = [params EXCEPT ![p] = a]
        /\ log' = [log EXCEPT ![p] = FirstEvents(HASHCODE_EQUALS_PROMPT, CheckHashCodeEqualsStatusRequest, a)]
    /\ Goto(p, "awaitFirst")
    /\ UNCHANGED <<selections, result, regenerate, res, i, chosen, workspaceEdit>>

\* Lines 58-71.  On a null result the message of line 60 reads result.type,
\* which throws a TypeError before showMessage is called.
HashCodeEquals_OnStatus(p) ==
    /\ Resume(p, HASHCODE_EQUALS_PROMPT, "awaitFirst")
    /\ \E r \in CheckHashCodeEqualsResponses :
        LET received == <<Received(CheckHashCodeEqualsStatusRequest, r)>>
        IN  /\ result' = [result EXCEPT ![p] = r]
            /\ IF IsNull(r) \/ ~Has(r, "fields") \/ Len(r.fields) = 0
               THEN IF IsNull(r)
                    THEN /\ Emit(p, received \o <<Throw("TypeError")>>)
                         /\ Goto(p, "threw")
                    ELSE /\ Emit(p, received \o <<ShowMessage("error"), Return>>)
                         /\ Goto(p, "done")
               ELSE IF Has(r, "existingMethods") /\ Len(r.existingMethods) > 0
                    THEN /\ Emit(p, received \o <<ShowPrompt>>)
                         /\ Goto(p, "awaitPrompt")
                    ELSE HashCodeEquals_ShowFields(p, r, received)
    /\ regenerate' = [regenerate EXCEPT ![p] = FALSE]
    /\ UNCHANGED <<params, selections, res, i, chosen, workspaceEdit>>

\* Lines 66-71, from the answer of the confirmation on.
HashCodeEquals_OnPrompt(p) ==
    /\ Resume(p, HASHCODE_EQUALS_PROMPT, "awaitPrompt")
    /\ \E ans \in BOOLEAN :
        IF Declined(ans)
        THEN /\ Emit(p, <<Answered(ans), Return>>)
             /\ Goto(p, "done")
             /\ UNCHANGED regenerate
        ELSE /\ regenerate' = [regenerate EXCEPT ![p] = TRUE]
             /\ HashCodeEquals_ShowFields(p, result[p], <<Answered(ans)>>)
    /\ UNCHANGED <<params, selections, result, res, i, chosen, workspaceEdit>>

HashCodeEquals_OnPick(p) ==
    /\ Resume(p, HASHCODE_EQUALS_PROMPT, "awaitQuickpick")
    /\ \E idx \in -1 .. Len(result[p].fields) - 1 :
        /\ res' = [res EXCEPT ![p] = idx]
        /\ IF idx = -1
           THEN /\ Emit(p, <<Picked(idx), Return>>)
                /\ Goto(p, "done")
           ELSE /\ Emit(p, <<Picked(idx),
                             Sent(GenerateHashCodeEqualsRequest,
                                  GenerateHashCodeEqualsParams(p, idx))>>)
                /\ Goto(p, "awaitEdit")
    /\ UNCHANGED <<params, selections, result, regenerate, i, chosen, workspaceEdit>>

HashCodeEquals_OnEdit(p) ==
    OnEdit(p, HASHCODE_EQUALS_PROMPT, GenerateHashCodeEqualsRequest)

-----------------------------------------------------------------------------
(* ORGANIZE_IMPORTS, lines 95-108 *)

\* `params` built from the current document, lines 97-104.
OrganizeImportsParams(doc) ==
    [textDocument |-> [uri |-> doc.uri],
     range |-> Range(0, 0, doc.lineCount, 0),
     context |-> [diagnostics |-> <<>>]]

OrganizeImports_Invoke(p) ==
    /\ Start(p, ORGANIZE_IMPORTS)
    /\ \E doc \in Documents :
        /\ params' = [params EXCEPT ![p] = OrganizeImportsParams(doc)]
        /\ log' = [log EXCEPT ![p] =
                     <<InvokedOnDocument(ORGANIZE_IMPORTS, doc),
                       Sent(OrganizeImportsRequest, OrganizeImportsParams(doc))>>]
    /\ Goto(p, "awaitEdit")
    /\ UNCHANGED <<selections, result, regenerate, res, i, chosen, workspaceEdit>>

OrganizeImports_OnEdit(p) ==
    OnEdit(p, ORGANIZE_IMPORTS, OrganizeImportsRequest)

-----------------------------------------------------------------------------
(* CHOOSE_IMPORTS, lines 110-135 *)

\* What the loop does at its head with counter n and list c: lines 114-117
\* when it goes on, line 133 when it is over.
ChooseImports_Loop(p, sel, n, c, before) ==
    IF n < Len(sel)
    THEN /\ Emit(p, before \o <<MoveTo(sel[n + 1].range.start)>>)
         /\ Goto(p, "awaitMoveTo")
    ELSE /\ Emit(p, before \o <<ReturnValue(c)>>)
         /\ Goto(p, "done")

ChooseImports_Invoke(p) ==
    /\ Start(p, CHOOSE_IMPORTS)
    /\ \E sel \in ChooseImportsArguments :
        /\ selections' = [selections EXCEPT ![p] = sel]
        /\ ChooseImports_Loop(p, sel, 0, <<>>,
                              <<InvokedWithSelections(CHOOSE_IMPORTS, sel)>>)
    /\ chosen' = [chosen EXCEPT ![p] = <<>>]
    /\ i' = [i EXCEPT ![p] = 0]
    /\ UNCHANGED <<params, result, regenerate, res, workspaceEdit>>

\* Lines 118-122.  candidates[0].fullyQualifiedName is read outside the try
\* block: with no candidate it throws a TypeError out of the handler.
ChooseImports_OnMoved(p) ==
    /\ Resume(p, CHOOSE_IMPORTS, "awaitMoveTo")
    /\ LET candidates == selections[p][i[p] + 1].candidates
       IN  IF Len(candidates) = 0
           THEN /\ Emit(p, <<Moved, Throw("TypeError")>>)
                /\ Goto(p, "threw")
           ELSE /\ Emit(p, <<Moved, ShowQuickpick(Map(candidates, CandidateLabel))>>)
                /\ Goto(p, "awaitQuickpick")
    /\ UNCHANGED locals

ChosenForFirst(candidates, idx) == At(candidates, IF idx = -1 THEN 0 ELSE idx)

\* The element pushed on `chosen` for the answer of a quickpick, lines 123-127.
ChosenFor(candidates, idx) == IF idx = -1 THEN Null ELSE At(candidates, idx)

\* Lines 123-127, then the loop's i++ and its head.
ChooseImports_OnPick(p) ==
    /\ Resume(p, CHOOSE_IMPORTS, "awaitQuickpick")
    /\ LET candidates == selections[p][i[p] + 1].candidates
       IN  \E idx \in -1 .. Len(candidates) - 1 :
            LET pushed == Append(chosen[p], ChosenFor(candidates, idx))
            IN  /\ res' = [res EXCEPT ![p] = idx]
                /\ chosen' = [chosen EXCEPT ![p] = pushed]
                /\ i' = [i EXCEPT ![p] = @ + 1]
                /\ ChooseImports_Loop(p, selections[p], i[p] + 1, pushed,
                                      <<Picked(idx)>>)
    /\ UNCHANGED <<params, selections, result, regenerate, workspaceEdit>>

\* Lines 128-133: the quickpick rejects, the catch breaks out of the loop.
ChooseImports_OnPickError(p) ==
    /\ Resume(p, CHOOSE_IMPORTS, "awaitQuickpick")
    /\ Emit(p, <<PickFailed, ReturnValue(chosen[p])>>)
    /\ Goto(p, "done")
    /\ UNCHANGED locals

-----------------------------------------------------------------------------
(* GENERATE_ACCESSORS_PROMPT, lines 137-170 *)

\* The payload of the second request, lines 162-167.
GenerateAccessorsParams(p, idx) ==
    [context |-> params[p], accessors |-> <<At(result[p].items, idx)>>]

GenerateAccessors_Invoke(p) ==
    /\ Start(p, GENERATE_ACCESSORS_PROMPT)
    /\ \E a \in CodeActionParams :
        /\ params' = [params EXCEPT ![p] = a]
        /\ log' = [log EXCEPT ![p] = FirstEvents(GENERATE_ACCESSORS_PROMPT, ResolveUnimplementedAccessorsRequest, a)]
    /\ Goto(p, "awaitFirst")
    /\ UNCHANGED <<selections, result, regenerate, res, i, chosen, workspaceEdit>>

\* Lines 140-160.
GenerateAccessors_OnResolve(p) ==
    /\ Resume(p, GENERATE_ACCESSORS_PROMPT, "awaitFirst")
    /\ \E accessors \in ResolveUnimplementedAccessorsResponses :
        LET received == <<Received(ResolveUnimplementedAccessorsRequest, accessors)>>
        IN  /\ result' = [result EXCEPT ![p] = accessors]
            /\ IF IsNull(accessors) \/ Len(accessors.items) = 0
               THEN /\ Emit(p, received \o <<Return>>)
                    /\ Goto(p, "done")
               ELSE /\ Emit(p, received \o
                                <<ShowQuickpick(Map(accessors.items, AccessorLabel))>>)
                    /\ Goto(p, "awaitQuickpick")
    /\ UNCHANGED <<params, selections, regenerate, res, i, chosen, workspaceEdit>>

GenerateAccessors_OnPick(p) ==
    /\ Resume(p, GENERATE_ACCESSORS_PROMPT, "awaitQuickpick")
    /\ \E idx \in -1 .. Len(result[p].items) - 1 :
        /\ res' = [res EXCEPT ![p] = idx]
        /\ IF idx = -1
           THEN /\ Emit(p, <<Picked(idx), Return>>)
                /\ Goto(p, "done")
           ELSE /\ Emit(p, <<Picked(idx),
                             Sent(GenerateAccessorsRequest,
                                  GenerateAccessorsParams(p, idx))>>)
                /\ Goto(p, "awaitEdit")
    /\ UNCHANGED <<params, selections, result, regenerate, i, chosen, workspaceEdit>>

GenerateAccessors_OnEdit(p) ==
    OnEdit(p, GENERATE_ACCESSORS_PROMPT, GenerateAccessorsRequest)

-----------------------------------------------------------------------------
(* GENERATE_TOSTRING_PROMPT, lines 172-209 *)

\* The payload of the second request, lines 203-206.
GenerateToStringParams(p, fields) == [context |-> params[p], fields |-> fields]

GenerateToString_FieldsRequired(p, r, before) ==
    IF Has(r, "fields") /\ Len(r.fields) > 0
    THEN /\ Emit(p, before \o <<ShowQuickpick(Map(r.fields, FieldLabel))>>)
         /\ Goto(p, "awaitQuickpick")
    ELSE /\ Emit(p, before \o <<Return>>)
         /\ Goto(p, "done")

\* Lines 187-206, from `let fields = []` to the next await.
GenerateToString_SelectFields(p, r, before) ==
    IF Has(r, "fields") /\ Len(r.fields) > 0
    THEN /\ Emit(p, before \o <<ShowQuickpick(Map(r.fields, FieldLabel))>>)
         /\ Goto(p, "awaitQuickpick")
    ELSE /\ Emit(p, before \o <<Sent(GenerateToStringRequest,
                                     GenerateToStringParams(p, <<>>))>>)
         /\ Goto(p, "awaitEdit")

GenerateToString_Invoke(p) ==
    /\ Start(p, GENERATE_TOSTRING_PROMPT)
    /\ \E a \in CodeActionParams :
        /\ params' = [params EXCEPT ![p] = a]
        /\ log' = [log EXCEPT ![p] = FirstEvents(GENERATE_TOSTRING_PROMPT, CheckToStringStatusRequest, a)]
    /\ Goto(p, "awaitFirst")
    /\ UNCHANGED <<selections, result, regenerate, res, i, chosen, workspaceEdit>>

\* Lines 174-185.
GenerateToString_OnStatus(p) ==
    /\ Resume(p, GENERATE_TOSTRING_PROMPT, "awaitFirst")
    /\ \E r \in CheckToStringResponses :
        LET received == <<Received(CheckToStringStatusRequest, r)>>
        IN  /\ result' = [result EXCEPT ![p] = r]
            /\ IF IsNull(r)
               THEN /\ Emit(p, received \o <<Return>>)
                    /\ Goto(p, "done")
               ELSE IF Has(r, "exists") /\ r.exists
                    THEN /\ Emit(p, received \o <<ShowPrompt>>)
                         /\ Goto(p, "awaitPrompt")
                    ELSE GenerateToString_SelectFields(p, r, received)
    /\ UNCHANGED <<params, selections, regenerate, res, i, chosen, workspaceEdit>>

\* Lines 180-185, from the answer of the confirmation on.
GenerateToString_OnPrompt(p) ==
    /\ Resume(p, GENERATE_TOSTRING_PROMPT, "awaitPrompt")
    /\ \E ans \in BOOLEAN :
        IF Declined(ans)
        THEN /\ Emit(p, <<Answered(ans), Return>>)
             /\ Goto(p, "done")
        ELSE GenerateToString_SelectFields(p, result[p], <<Answered(ans)>>)
    /\ UNCHANGED locals

\* Lines 197-206, from the answer of the quickpick on.
GenerateToString_OnPick(p) ==
    /\ Resume(p, GENERATE_TOSTRING_PROMPT, "awaitQuickpick")
    /\ \E idx \in -1 .. Len(result[p].fields) - 1 :
        /\ res' = [res EXCEPT ![p] = idx]
        /\ IF idx = -1
           THEN /\ Emit(p, <<Picked(idx), Return>>)
                /\ Goto(p, "done")
           ELSE /\ Emit(p, <<Picked(idx),
                             Sent(GenerateToStringRequest,
                                  GenerateToStringParams(p, <<At(result[p].fields, idx)>>))>>)
                /\ Goto(p, "awaitEdit")
    /\ UNCHANGED <<params, selections, result, regenerate, i, chosen, workspaceEdit>>

GenerateToString_OnEdit(p) ==
    OnEdit(p, GENERATE_TOSTRING_PROMPT, GenerateToStringRequest)

-----------------------------------------------------------------------------
(* Steps shared by the handlers *)

\* `await applyWorkspaceEdit(workspaceEdit)` resolves and the handler returns.
ApplyDone(p) ==
    /\ p \in slots
    /\ pc[p] = "awaitApply"
    /\ Emit(p, <<Applied, Return>>)
    /\ Goto(p, "done")
    /\ UNCHANGED <<slots, cmd, locals>>

\* An awaited promise rejects outside any try block: the handler throws.
\* (The quickpick of the choose-imports handler is awaited inside its try.)
Reject(p) ==
    /\ p \in slots
    /\ pc[p] \in {"awaitFirst", "awaitPrompt", "awaitQuickpick", "awaitEdit",
                  "awaitApply", "awaitMoveTo"}
    /\ ~(cmd[p] = CHOOSE_IMPORTS /\ pc[p] = "awaitQuickpick")
    /\ Emit(p, <<Rejected, Throw("rejected")>>)
    /\ Goto(p, "threw")
    /\ UNCHANGED <<slots, cmd, locals>>

\* The invocation is over; the command may be invoked again.
Finish(p) ==
    /\ p \in slots
    /\ pc[p] \in {"done", "threw"}
    /\ pc' = [pc EXCEPT ![p] = "idle"]
    /\ cmd' = [cmd EXCEPT ![p] = "none"]
    /\ params' = [params EXCEPT ![p] = Null]
    /\ selections' = [selections EXCEPT ![p] = <<>>]
    /\ result' = [result EXCEPT ![p] = Null]
    /\ regenerate' = [regenerate EXCEPT ![p] = FALSE]
    /\ res' = [res EXCEPT ![p] = -1]
    /\ i' = [i EXCEPT ![p] = 0]
    /\ chosen' = [chosen EXCEPT ![p] = <<>>]
    /\ workspaceEdit' = [workspaceEdit EXCEPT ![p] = Null]
    /\ log' = [log EXCEPT ![p] = <<>>]
    /\ UNCHANGED slots

Next ==
    \E p \in Procs :
        \/ OverrideMethods_Invoke(p)
        \/ OverrideMethods_OnList(p)
        \/ OverrideMethods_OnPick(p)
        \/ OverrideMethods_OnEdit(p)
        \/ HashCodeEquals_Invoke(p)
        \/ HashCodeEquals_OnStatus(p)
        \/ HashCodeEquals_OnPrompt(p)
        \/ HashCodeEquals_OnPick(p)
        \/ HashCodeEquals_OnEdit(p)
        \/ OrganizeImports_Invoke(p)
        \/ OrganizeImports_OnEdit(p)
        \/ ChooseImports_Invoke(p)
        \/ ChooseImports_OnMoved(p)
        \/ ChooseImports_OnPick(p)
        \/ ChooseImports_OnPickError(p)
        \/ GenerateAccessors_Invoke(p)
        \/ GenerateAccessors_OnResolve(p)
        \/ GenerateAccessors_OnPick(p)
        \/ GenerateAccessors_OnEdit(p)
        \/ GenerateToString_Invoke(p)
        \/ GenerateToString_OnStatus(p)
        \/ GenerateToString_OnPrompt(p)
        \/ GenerateToString_OnPick(p)
        \/ GenerateToString_OnEdit(p)
        \/ ApplyDone(p)
        \/ Reject(p)
        \/ Finish(p)

Spec == Init /\ [][Next]_vars

ConcurrentSpec == InitConcurrent /\ [][Next]_vars

-----------------------------------------------------------------------------
(* Reading a history *)

PromptingCommands ==
    {OVERRIDE_METHODS_PROMPT, HASHCODE_EQUALS_PROMPT,
     GENERATE_TOSTRING_PROMPT, GENERATE_ACCESSORS_PROMPT}

Kind(l, K) == {n \in DOMAIN l : l[n].k \in K}

Sends(l, reqs) == {n \in DOMAIN l : l[n].k = "send" /\ l[n].req \in reqs}

Recvs(l, reqs) == {n \in DOMAIN l : l[n].k = "recv" /\ l[n].req \in reqs}

Before(S, n) == {m \in S : m < n}

Latest(S) == CHOOSE n \in S : \A m \in S : m <= n

\* The running or finished invocations of the prompting handlers.
Prompting == {p \in slots : cmd[p] \in PromptingCommands}

\* Place of an event in the chain: 1 first request, 2 its response, 3 the
\* prompts and their answers, 4 second request, 5 its response, 6 the edit.
Stage(e) ==
    CASE e.k = "send" /\ e.req \in FirstRequests -> 1
      [] e.k = "recv" /\ e.req \in FirstRequests -> 2
      [] e.k \in {"quickpick", "picked", "prompt", "answered"} -> 3
      [] e.k = "send" /\ e.req \in SecondRequests -> 4
      [] e.k = "recv" /\ e.req \in SecondRequests -> 5
      [] e.k \in {"apply", "applied"} -> 6
      [] OTHER -> 0

Staged(l) == {n \in DOMAIN l : Stage(l[n]) > 0}

-----------------------------------------------------------------------------
(* C1 *)

\* C1: in every invocation of the four prompting handlers the events occur
\* in the order first request, its response, prompts, second request, its
\* response, applyWorkspaceEdit: a later stage never precedes an earlier one,
\* each request, response and edit occurs at most once and only after the
\* stage before it, no prompt is shown before the first response, the second
\* request is sent only when every shown prompt is answered, and the edit
\* applied is exactly the second response.
C1_FixedOrder ==
    \A p \in Prompting :
        LET l == log[p]
        IN  /\ \A m, n \in Staged(l) : m < n => Stage(l[m]) <= Stage(l[n])
            /\ \A m, n \in Staged(l) :
                (Stage(l[m]) = Stage(l[n]) /\ Stage(l[m]) # 3 /\ l[m].k = l[n].k) => m = n
            /\ \A n \in Kind(l, {"recv"}) : Before(Sends(l, {l[n].req}), n) # {}
            /\ \A n \in Kind(l, {"quickpick", "prompt"}) :
                Before(Recvs(l, FirstRequests), n) # {}
            /\ \A n \in Sends(l, SecondRequests) :
                /\ Before(Recvs(l, FirstRequests), n) # {}
                /\ Cardinality(Before(Kind(l, {"quickpick"}), n))
                     = Cardinality(Before(Kind(l, {"picked"}), n))
                /\ Cardinality(Before(Kind(l, {"prompt"}), n))
                     = Cardinality(Before(Kind(l, {"answered"}), n))
            /\ \A n \in Kind(l, {"apply"}) :
                /\ Before(Recvs(l, SecondRequests), n) # {}
                /\ l[n].edit = l[Latest(Before(Recvs(l, SecondRequests), n))].val

\* A hashCode/equals invocation went through every stage, both prompts
\* included, and applied a non-null edit.
C1_Witness ==
    \E p \in Prompting :
        /\ pc[p] = "done"
        /\ cmd[p] = HASHCODE_EQUALS_PROMPT
        /\ Kind(log[p], {"prompt"}) # {}
        /\ Kind(log[p], {"quickpick"}) # {}
        /\ \E n \in Kind(log[p], {"apply"}) : log[p][n].edit # Null

-----------------------------------------------------------------------------
(* C2 *)

\* The quickpick was cancelled or the confirmation declined.
Refused(l) ==
    \/ \E n \in Kind(l, {"picked"}) : l[n].idx = -1
    \/ \E n \in Kind(l, {"answered"}) : ~l[n].ans

\* C2: in the four prompting handlers, once the user has cancelled a
\* quickpick or declined a confirmation the invocation has ended (it has
\* returned), and it has sent no second request and applied no edit.
C2_GatedByChoices ==
    \A p \in Prompting :
        Refused(log[p]) =>
            /\ pc[p] = "done"
            /\ log[p][Len(log[p])] = Return
            /\ Sends(log[p], SecondRequests) = {}
            /\ Kind(log[p], {"apply"}) = {}

\* The confirmation of the toString handler was declined.
C2_Witness ==
    \E p \in Prompting :
        /\ cmd[p] = GENERATE_TOSTRING_PROMPT
        /\ \E n \in Kind(log[p], {"answered"}) : ~log[p][n].ans
        /\ pc[p] = "done"

-----------------------------------------------------------------------------
(* C3 *)

\* C3 as stated: every invocation of each of the six handlers has sent a
\* request to the language server by the time it returns, and an edit it
\* applies is the response to its last request.
C3_EveryHandlerSends ==
    \A p \in slots :
        /\ pc[p] = "done" => Kind(log[p], {"send"}) # {}
        /\ \A n \in Kind(log[p], {"apply"}) :
            /\ Before(Kind(log[p], {"recv"}), n) # {}
            /\ log[p][n].edit = log[p][Latest(Before(Kind(log[p], {"recv"}), n))].val

\* C3 amended: the five handlers other than CHOOSE_IMPORTS have sent a
\* request by the time they first suspend, hence before they return;
\* CHOOSE_IMPORTS sends none and applies no edit; an edit a handler applies
\* is the response to the last request it sent.
C3_AllButChooseImportsSend ==
    \A p \in slots :
        LET l == log[p]
        IN  /\ (cmd[p] \in registerCommands \ {CHOOSE_IMPORTS}) =>
                /\ Len(l) >= 2
                /\ l[2].k = "send"
            /\ cmd[p] = CHOOSE_IMPORTS => Kind(l, {"send", "apply"}) = {}
            /\ \A n \in Kind(l, {"apply"}) :
                LET sent == Latest(Before(Kind(l, {"send"}), n))
                    got == Latest(Before(Kind(l, {"recv"}), n))
                IN  /\ sent < got
                    /\ l[got].req = l[sent].req
                    /\ l[n].edit = l[got].val

\* An organize-imports invocation applied the edit the server returned and
\* has returned.
C3_Witness ==
    \E p \in slots :
        /\ cmd[p] = ORGANIZE_IMPORTS
        /\ pc[p] = "done"
        /\ \E n \in Kind(log[p], {"apply"}) : log[p][n].edit # Null

-----------------------------------------------------------------------------
(* C8 *)

\* The first response of a handler is null, or its list is missing or empty.
Unusable(c, r) ==
    \/ IsNull(r)
    \/ c = OVERRIDE_METHODS_PROMPT /\ (~Has(r, "methods") \/ Len(r.methods) = 0)
    \/ c = HASHCODE_EQUALS_PROMPT /\ (~Has(r, "fields") \/ Len(r.fields) = 0)
    \/ c = GENERATE_ACCESSORS_PROMPT /\ Len(r.items) = 0

\* C8: in the override-methods, hashCode/equals and accessors handlers an
\* unusable first response ends the invocation normally (no error raised),
\* with no quickpick, no second request and no edit; override-methods has
\* shown exactly one warning, hashCode/equals exactly one error message.
C8_UnusableResponseEndsCleanly ==
    \A p \in slots :
        (/\ cmd[p] \in {OVERRIDE_METHODS_PROMPT, HASHCODE_EQUALS_PROMPT,
                        GENERATE_ACCESSORS_PROMPT}
         /\ Recvs(log[p], FirstRequests) # {}
         /\ Unusable(cmd[p], log[p][Latest(Recvs(log[p], FirstRequests))].val))
        => LET l == log[p]
               messages == Kind(l, {"message"})
           IN  /\ pc[p] = "done"
               /\ Kind(l, {"throw"}) = {}
               /\ Kind(l, {"quickpick", "prompt", "apply"}) = {}
               /\ Sends(l, SecondRequests) = {}
               /\ cmd[p] = OVERRIDE_METHODS_PROMPT =>
                    /\ Cardinality(messages) = 1
                    /\ \A n \in messages : l[n].level = "warning"
               /\ cmd[p] = HASHCODE_EQUALS_PROMPT =>
                    /\ Cardinality(messages) = 1
                    /\ \A n \in messages : l[n].level = "error"
               /\ cmd[p] = GENERATE_ACCESSORS_PROMPT => messages = {}

-----------------------------------------------------------------------------
(* C5 *)

\* The list whose labels a prompting handler shows, as the handler holds it,
\* and the list the second request carries.
Shown(p) ==
    CASE cmd[p] = OVERRIDE_METHODS_PROMPT -> result[p].methods
      [] cmd[p] = GENERATE_ACCESSORS_PROMPT -> result[p].items
      [] OTHER -> result[p].fields

LabelOf(c, item) ==
    CASE c = OVERRIDE_METHODS_PROMPT -> MethodLabel(item)
      [] c = GENERATE_ACCESSORS_PROMPT -> AccessorLabel(item)
      [] OTHER -> FieldLabel(item)

Carried(c, payload) ==
    CASE c = OVERRIDE_METHODS_PROMPT -> payload.overridableMethods
      [] c = GENERATE_ACCESSORS_PROMPT -> payload.accessors
      [] OTHER -> payload.fields

\* The list of the first response, in the server's order.
Listed(c, r) ==
    CASE c = OVERRIDE_METHODS_PROMPT -> r.methods
      [] c = GENERATE_ACCESSORS_PROMPT -> r.items
      [] OTHER -> r.fields

\* C5: in the four prompting handlers, a second request sent after a
\* quickpick answer idx >= 0 carries a list of exactly one element, the
\* element of the handler's list whose label the quickpick displayed at
\* position idx; but for override-methods, whose list was sorted before it
\* was shown, that list is the server's in the server's order.
C5_PickSelectsShownItem ==
    \A p \in Prompting :
        LET l == log[p]
        IN  \A n \in Sends(l, SecondRequests) :
                Before(Kind(l, {"picked"}), n) # {} =>
                    LET idx == l[Latest(Before(Kind(l, {"picked"}), n))].idx
                        items == l[Latest(Before(Kind(l, {"quickpick"}), n))].items
                        received == l[Latest(Recvs(l, FirstRequests))].val
                        carried == Carried(cmd[p], l[n].payload)
                    IN  /\ idx >= 0
                        /\ idx < Len(items)
                        /\ Len(carried) = 1
                        /\ Len(items) = Len(Shown(p))
                        /\ \A m \in DOMAIN items : items[m] = LabelOf(cmd[p], Shown(p)[m])
                        /\ carried[1] = Shown(p)[idx + 1]
                        /\ LabelOf(cmd[p], carried[1]) = items[idx + 1]
                        /\ cmd[p] # OVERRIDE_METHODS_PROMPT =>
                            carried[1] = Listed(cmd[p], received)[idx + 1]

\* Override-methods sent the method picked at position 1 of a list that the
\* sort had reordered.
C5_Witness ==
    \E p \in Prompting :
        /\ cmd[p] = OVERRIDE_METHODS_PROMPT
        /\ pc[p] = "awaitEdit"
        /\ res[p] = 1
        /\ log[p][Latest(Recvs(log[p], FirstRequests))].val.methods # result[p].methods

-----------------------------------------------------------------------------
(* C6 *)

Count(seq, x) == Cardinality({n \in DOMAIN seq : seq[n] = x})

\* a <= b in the order of localeCompare.
LocaleLeq(a, b) == LocaleCompare(a, b) <= 0

\* name(parameters joined by ','), built from the end of the parameter list.
RECURSIVE ParametersText(_)
ParametersText(ps) ==
    IF Len(ps) = 0 THEN ""
    ELSE IF Len(ps) = 1 THEN ps[1]
    ELSE ParametersText(SubSeq(ps, 1, Len(ps) - 1)) \o "," \o ps[Len(ps)]

\* C6: the list the override-methods handler shows is a permutation of the
\* methods the server returned, ordered by declaring class, then by method
\* name, then by ascending number of parameters (strings in the order of
\* localeCompare), and each label is name(parameters joined by ',').
C6_SortedPermutation ==
    \A p \in slots :
        (cmd[p] = OVERRIDE_METHODS_PROMPT /\ Kind(log[p], {"quickpick"}) # {}) =>
            LET l == log[p]
                items == l[Latest(Kind(l, {"quickpick"}))].items
                returned == l[Latest(Recvs(l, FirstRequests))].val.methods
                shown == result[p].methods
            IN  /\ Len(shown) = Len(returned)
                /\ \A m \in Methods : Count(shown, m) = Count(returned, m)
                /\ Len(items) = Len(shown)
                /\ \A n \in DOMAIN shown :
                    items[n] = shown[n].name \o "(" \o ParametersText(shown[n].parameters) \o ")"
                /\ \A n \in 1 .. Len(shown) - 1 :
                    LET a == shown[n]
                        b == shown[n + 1]
                    IN  /\ LocaleLeq(a.declaringClass, b.declaringClass)
                        /\ a.declaringClass = b.declaringClass =>
                            /\ LocaleLeq(a.name, b.name)
                            /\ a.name = b.name =>
                                Len(a.parameters) <= Len(b.parameters)

\* The server returned, in this order, a method and an overload of it with
\* fewer parameters, and the quickpick is shown.
C6_Witness ==
    \E p \in slots :
        /\ cmd[p] = OVERRIDE_METHODS_PROMPT
        /\ pc[p] = "awaitQuickpick"
        /\ LET returned == log[p][Latest(Recvs(log[p], FirstRequests))].val.methods
           IN  /\ Len(returned) >= 2
               /\ returned[1].declaringClass = returned[2].declaringClass
               /\ returned[1].name = returned[2].name
               /\ Len(returned[1].parameters) > Len(returned[2].parameters)

-----------------------------------------------------------------------------
(* C7 *)

HashCodeEquals == {p \in slots : cmd[p] = HASHCODE_EQUALS_PROMPT}

\* The status response lists at least one existing method.
ListsExisting(r) ==
    ~IsNull(r) /\ Has(r, "existingMethods") /\ Len(r.existingMethods) > 0

ListsFields(r) == ~IsNull(r) /\ Has(r, "fields") /\ Len(r.fields) > 0

\* What C7 says of the generate request.
RegenerateReflectsAnswer(l, status) ==
    \A n \in Sends(l, {GenerateHashCodeEqualsRequest}) :
        /\ l[n].payload.regenerate <=>
            (/\ Before(Kind(l, {"prompt"}), n) # {}
             /\ \E m \in Before(Kind(l, {"answered"}), n) : l[m].ans)
        /\ ~l[n].payload.regenerate <=> ~ListsExisting(status)

\* C7 as stated: the confirmation is shown if and only if the status
\* response lists at least one existing method; the generate request has
\* regenerate = true exactly when the confirmation was shown and answered
\* positively, and regenerate = false exactly when no existing method is
\* listed.
C7_PromptIffExisting ==
    \A p \in HashCodeEquals :
        Recvs(log[p], FirstRequests) # {} =>
            LET status == log[p][Latest(Recvs(log[p], FirstRequests))].val
            IN  /\ (Kind(log[p], {"prompt"}) # {}) <=> ListsExisting(status)
                /\ RegenerateReflectsAnswer(log[p], status)

\* C7 amended: the confirmation is shown if and only if the status response
\* lists at least one field and at least one existing method; the rest as
\* stated.
C7_PromptIffExistingAndApplicable ==
    \A p \in HashCodeEquals :
        Recvs(log[p], FirstRequests) # {} =>
            LET status == log[p][Latest(Recvs(log[p], FirstRequests))].val
            IN  /\ (Kind(log[p], {"prompt"}) # {})
                     <=> (ListsFields(status) /\ ListsExisting(status))
                /\ RegenerateReflectsAnswer(log[p], status)

\* The confirmation was answered positively and the generate request sent.
C7_Witness ==
    \E p \in HashCodeEquals :
        /\ pc[p] = "awaitEdit"
        /\ \E n \in Kind(log[p], {"answered"}) : log[p][n].ans

-----------------------------------------------------------------------------
(* C9 *)

ChooseImports == {p \in slots : cmd[p] = CHOOSE_IMPORTS}

Elements(seq) == {seq[n] : n \in DOMAIN seq}

\* The n-th smallest member of a set of positions.
Nth(S, n) == CHOOSE m \in S : Cardinality({x \in S : x < m}) = n - 1

EveryoneHasCandidates(sel) == \A n \in DOMAIN sel : Len(sel[n].candidates) >= 1

\* C9: for selections that each have a candidate, chosen is never longer
\* than selections; chosen[n] is null when the n-th quickpick was cancelled
\* and else a candidate of selections[n]; the n-th prompt lists the
\* candidates of selections[n] and directly follows one cursor move to
\* selections[n].range.start; the handler returns chosen, which is as long
\* as selections unless a quickpick raised an error, and then holds the
\* answers collected before the error, no prompt having followed it.
C9_ChosenAlignedWithSelections ==
    \A p \in ChooseImports :
        EveryoneHasCandidates(selections[p]) =>
            LET l == log[p]
                sel == selections[p]
                prompts == Kind(l, {"quickpick"})
                answers == Kind(l, {"picked"})
                moves == Kind(l, {"moveTo"})
                returns == Kind(l, {"return"})
                failures == Kind(l, {"pickFailed"})
            IN  /\ Len(chosen[p]) <= Len(sel)
                /\ Len(chosen[p]) = Cardinality(answers)
                /\ \A n \in DOMAIN chosen[p] :
                    /\ chosen[p][n] = Null <=> l[Nth(answers, n)].idx = -1
                    /\ chosen[p][n] # Null => chosen[p][n] \in Elements(sel[n].candidates)
                /\ Cardinality(prompts) <= Len(sel)
                /\ Cardinality(moves) <= Cardinality(prompts) + 1
                /\ \A n \in 1 .. Cardinality(prompts) :
                    LET at == Nth(prompts, n)
                    IN  /\ l[at].items = Map(sel[n].candidates, CandidateLabel)
                        /\ l[at - 1] = Moved
                        /\ l[at - 2] = MoveTo(sel[n].range.start)
                        /\ Cardinality(Before(moves, at)) = n
                /\ \A n \in returns :
                    /\ n = Len(l)
                    /\ l[n].value = chosen[p]
                    /\ failures = {} => Len(chosen[p]) = Len(sel)
                    /\ failures # {} =>
                        /\ failures = {n - 1}
                        /\ Cardinality(prompts) = Len(chosen[p]) + 1
                        /\ \A m \in prompts : m < n - 1

\* With two selections, the first quickpick was cancelled and the second
\* raised an error: the handler returned the one null.
C9_Witness ==
    \E p \in ChooseImports :
        /\ pc[p] = "done"
        /\ Len(selections[p]) = 2
        /\ EveryoneHasCandidates(selections[p])
        /\ chosen[p] = <<Null>>
        /\ Kind(log[p], {"pickFailed"}) # {}

-----------------------------------------------------------------------------
(* C10 *)

GenerateToString == {p \in slots : cmd[p] = GENERATE_TOSTRING_PROMPT}

\* C10: in the toString handler, when the status is present and reports no
\* field and the user has not declined the confirmation, no quickpick is
\* shown, the generate request is sent once the confirmation (if any) is
\* answered, with an empty field list, and its response is what the handler
\* applies before it returns; when the status reports a field, the generate
\* request is sent only after a quickpick answer idx >= 0 and carries
\* exactly the field at idx; when the status is absent the handler returns
\* having sent nothing more and applied nothing.
C10_QuickpickOptionalGenerateNot ==
    \A p \in GenerateToString :
        Recvs(log[p], FirstRequests) # {} =>
            LET l == log[p]
                status == l[Latest(Recvs(l, FirstRequests))].val
                generates == Sends(l, {GenerateToStringRequest})
                declined == \E n \in Kind(l, {"answered"}) : ~l[n].ans
                confirmed == ~Has(status, "exists") \/ ~status.exists \/ (\E n \in Kind(l, {"answered"}) : l[n].ans)
            IN  /\ IsNull(status) =>
                    /\ pc[p] = "done"
                    /\ Cardinality(Kind(l, {"send"})) = 1
                    /\ Kind(l, {"apply", "quickpick", "prompt"}) = {}
                /\ (~IsNull(status) /\ ~ListsFields(status)) =>
                    /\ Kind(l, {"quickpick"}) = {}
                    /\ confirmed =>
                        /\ Cardinality(generates) = 1
                        /\ \A n \in generates :
                            l[n].payload = [context |-> l[1].params, fields |-> <<>>]
                        /\ pc[p] = "done" =>
                            \E n \in Kind(l, {"apply"}) :
                                /\ l[n - 1].k = "recv"
                                /\ l[n - 1].req = GenerateToStringRequest
                                /\ l[n].edit = l[n - 1].val
                    /\ declined => generates = {}
                /\ ListsFields(status) =>
                    \A n \in generates :
                        /\ l[n - 1].k = "picked"
                        /\ l[n - 1].idx >= 0
                        /\ l[n].payload.fields = <<status.fields[l[n - 1].idx + 1]>>

\* toString() exists, the user confirmed, the class has no field: the
\* generate request went out without a quickpick and its edit was applied.
C10_Witness ==
    \E p \in GenerateToString :
        /\ pc[p] = "done"
        /\ Kind(log[p], {"answered"}) # {}
        /\ Kind(log[p], {"quickpick"}) = {}
        /\ Kind(log[p], {"apply"}) # {}

-----------------------------------------------------------------------------
(* C4 *)

\* The answers of the quickpicks in a history, in order.
PickedIn(l) == [n \in 1 .. Cardinality(Kind(l, {"picked"})) |-> l[Nth(Kind(l, {"picked"}), n)].idx]

\* What an invocation with history l sends, applies and returns is what its
\* own arguments, its own responses and its own answers make it.
OwnInputsDecide(l) ==
    LET c == l[1].cmd
        picks == Kind(l, {"picked"})
    IN  /\ \A n \in Sends(l, FirstRequests) : l[n].payload = l[1].params
        /\ \A n \in Sends(l, {OrganizeImportsRequest}) :
            /\ l[n].payload.textDocument.uri = l[1].doc.uri
            /\ l[n].payload.range = Range(0, 0, l[1].doc.lineCount, 0)
        /\ \A n \in Sends(l, SecondRequests) :
            LET received == l[Latest(Recvs(l, FirstRequests))].val
                carried == Carried(c, l[n].payload)
            IN  /\ l[n].payload.context = l[1].params
                /\ IF picks = {}
                   THEN carried = <<>>
                   ELSE LET idx == l[Latest(picks)].idx
                            items == l[Latest(Kind(l, {"quickpick"}))].items
                        IN  /\ Len(carried) = 1
                            /\ carried[1] \in Elements(Listed(c, received))
                            /\ LabelOf(c, carried[1]) = items[idx + 1]
                            /\ c # OVERRIDE_METHODS_PROMPT =>
                                carried[1] = Listed(c, received)[idx + 1]
                /\ c = HASHCODE_EQUALS_PROMPT =>
                    l[n].payload.regenerate = (\E m \in Kind(l, {"answered"}) : l[m].ans)
        /\ \A n \in Kind(l, {"apply"}) :
            l[n].edit = l[Latest(Before(Kind(l, {"recv"}), n))].val
        /\ \A n \in Kind(l, {"return"}) :
            c = CHOOSE_IMPORTS =>
                /\ Len(l[n].value) = Len(PickedIn(l))
                /\ \A m \in DOMAIN l[n].value :
                    l[n].value[m] =
                        IF PickedIn(l)[m] = -1 THEN Null
                        ELSE l[1].selections[m].candidates[PickedIn(l)[m] + 1]

\* C4: when two invocations are interleaved at their awaits in any order,
\* the payload of every request each of them sends, the edit it applies and
\* the value it returns are decided by its own arguments, responses and
\* answers, whatever the other invocation was given and has done.
C4_NoSharedState ==
    \A p \in slots : log[p] # <<>> => OwnInputsDecide(log[p])

\* Two invocations of the same command, given different params, are both
\* suspended after their second request, each on a method the other's
\* server response did not list.
C4_Witness ==
    /\ slots = Procs
    /\ \A p \in Procs : cmd[p] = OVERRIDE_METHODS_PROMPT /\ pc[p] = "awaitEdit"
    /\ params[1] # params[2]
    /\ result[1] # result[2]

====
